---- MODULE Spec2Model ----
(***************************************************************************)
(* A model of wordulator.py: the classifier, the candidate filter, the     *)
(* scorer, the three guess selectors, the play_wordle game loop, the batch *)
(* driver solve_every_wordle with safe_play_wordle, and the life of POOL.  *)
(*                                                                         *)
(* Words are tuples of letters; a letter is its position in the alphabet   *)
(* (a = 1 .. z = 26), so that the order of Python's str comparison on      *)
(* lower-case words is the lexicographic order of the tuples.              *)
(***************************************************************************)
EXTENDS Integers, Sequences, FiniteSets, TLC

VARIABLES
    words,              \* play_wordle argument: the dictionary (a list)
    first_guess,        \* play_wordle argument: the seed guess or None
    target_word,        \* play_wordle argument: the secret
    hard_mode,          \* play_wordle argument
    mode,               \* play_wordle argument: NO_POOL, POOL, CHUNKED_POOL
    pc,                 \* position of play_wordle
    potential_answers,  \* local: the candidate list
    guesses,            \* local: the guess vocabulary
    guess_list,         \* local: the guess history
    guess,              \* local: the guess of the current turn
    classified,         \* local: the last classification (classify_first / classified)
    all_futures,        \* selector local: the futures not yet yielded by as_completed
    gen_min,            \* make_guess_with_pool: the running minimum of min(gen)
    split_results,      \* make_guess_with_pool_chunked: the collected chunk results
    err,                \* the exception that ended play_wordle, or None
    turns,              \* number of selector invocations so far
    call,               \* a direct call of a pure function (SpecFilter), or NoCall
    pool_state,         \* the module-level executor POOL: "open" or "shutdown"
    main_pc,            \* the program: "running", "returned" or "raised"
    batch_pc,           \* position of solve_every_wordle, "idle" when it is not called
    answers,            \* solve_every_wordle local: the secrets of answer_list.txt
    games,              \* solve_every_wordle local: the submitted futures
    scores              \* solve_every_wordle local: the tally

vars == <<words, first_guess, target_word, hard_mode, mode, pc, potential_answers,
          guesses, guess_list, guess, classified, all_futures, gen_min,
          split_results, err, turns, call, pool_state, main_pc, batch_pc, answers,
          games, scores>>

-----------------------------------------------------------------------------
(* Enumerations and constants of the program *)

BLANK == "BLANK"
YELLOW == "YELLOW"
GREEN == "GREEN"
Classification == {BLANK, YELLOW, GREEN}

NO_POOL == "NO_POOL"
POOL == "POOL"
CHUNKED_POOL == "CHUNKED_POOL"
Mode == {NO_POOL, POOL, CHUNKED_POOL}

MAX_WORKERS == 8
GUESS_LIMIT == 20

\* Python's None; no word is the empty tuple
None == <<>>

NoCall == [fn |-> "none"]

\* the longest history solve_every_wordle counts as a solved game
MAX_SCORE == 6

-----------------------------------------------------------------------------
(* Bounds of the model *)

\* longest dictionary of the exhaustively enumerated two-letter games
MaxDictLen == 3
\* longest dictionary of the games over pairwise letter-disjoint words
MaxLongLen == 24
\* longest answer list of the batches over the Scenario A dictionary
MaxAnswers == 3

-----------------------------------------------------------------------------
(* Helpers for Python built-ins *)

Range(s) == {s[i] : i \in 1..Len(s)}

MinInt(a, b) == IF a < b THEN a ELSE b

\* str < str on lower-case words: lexicographic order
RECURSIVE WordLT(_, _)
WordLT(u, v) ==
    IF u = <<>> THEN v # <<>>
    ELSE IF v = <<>> THEN FALSE
    ELSE IF Head(u) # Head(v) THEN Head(u) < Head(v)
    ELSE WordLT(Tail(u), Tail(v))

\* ceil(a / b) for b > 0
CeilDiv(a, b) == (a + b - 1) \div b

-----------------------------------------------------------------------------
(* classify_guess *)

\* the mutant: a letter whose every occurrence in the answer is matched GREEN by
\* the guess is BLANK elsewhere (multiplicity-aware feedback)
classify_guess_mut_blank(g, potential_answer) ==
    [pos \in 1..Len(g) |->
        IF potential_answer[pos] = g[pos] THEN GREEN
        ELSE IF g[pos] \in Range(potential_answer)
                /\ \A q \in 1..Len(g) : ~(g[q] = g[pos] /\ potential_answer[q] = g[q])
             THEN YELLOW
        ELSE BLANK]

\* the mutant: the positional test is lost, a matching letter is only "present"
classify_guess_mut_nogreen(g, potential_answer) ==
    [pos \in 1..Len(g) |->
        IF g[pos] \in Range(potential_answer) THEN YELLOW ELSE BLANK]

classify_guess(g, potential_answer) ==
    [pos \in 1..Len(g) |->
        IF potential_answer[pos] = g[pos] THEN GREEN
        ELSE IF g[pos] \in Range(potential_answer) THEN YELLOW
        ELSE BLANK]

-----------------------------------------------------------------------------
(* filter_words *)

\* the mutant: the YELLOW rule tests "letter in word" instead of "letter not in word"
word_passes_mut_yellow(word, g, classification) ==
    \A pos \in 1..MinInt(Len(classification), Len(g)) :
        LET letter_class == classification[pos]
            letter == g[pos]
        IN  /\ ~(letter_class = BLANK /\ letter \in Range(word))
            /\ ~(letter_class = GREEN /\ word[pos] # letter)
            /\ ~(letter_class = YELLOW /\ (word[pos] = letter \/ letter \in Range(word)))

\* the mutant: the BLANK rule tests only the letter's own position
word_passes_mut_blank(word, g, classification) ==
    \A pos \in 1..MinInt(Len(classification), Len(g)) :
        LET letter_class == classification[pos]
            letter == g[pos]
        IN  /\ ~(letter_class = BLANK /\ word[pos] = letter)
            /\ ~(letter_class = GREEN /\ word[pos] # letter)
            /\ ~(letter_class = YELLOW /\ (word[pos] = letter \/ letter \notin Range(word)))

\* the inner for/else of filter_words: TRUE when no position breaks
word_passes(word, g, classification) ==
    \A pos \in 1..MinInt(Len(classification), Len(g)) :
        LET letter_class == classification[pos]
            letter == g[pos]
        IN  /\ ~(letter_class = BLANK /\ letter \in Range(word))
            /\ ~(letter_class = GREEN /\ word[pos] # letter)
            /\ ~(letter_class = YELLOW /\ (word[pos] = letter \/ letter \notin Range(word)))

RECURSIVE filter_loop(_, _, _, _, _)
filter_loop(ws, i, g, classification, output) ==
    IF i > Len(ws) THEN output
    ELSE filter_loop(ws, i + 1, g, classification,
                     IF word_passes(ws[i], g, classification)
                     THEN Append(output, ws[i]) ELSE output)

filter_words(ws, g, classification) == filter_loop(ws, 1, g, classification, <<>>)

-----------------------------------------------------------------------------
(* score_guess: statistics.mean of the bucket counts, kept as an exact      *)
(* fraction num/den                                                         *)

RECURSIVE SumCounts(_, _)
SumCounts(counts, keys) ==
    IF keys = {} THEN 0
    ELSE LET k == CHOOSE x \in keys : TRUE
         IN  counts[k] + SumCounts(counts, keys \ {k})

score_guess(g, ws) ==
    LET keys == {classify_guess(g, ws[i]) : i \in 1..Len(ws)}
        counts == [c \in keys |->
                     Cardinality({i \in 1..Len(ws) : classify_guess(g, ws[i]) = c})]
    IN  [num |-> SumCounts(counts, keys), den |-> Cardinality(keys)]

IntScore(n) == [num |-> n, den |-> 1]

ScoreLT(s, t) == s.num * t.den < t.num * s.den
ScoreEQ(s, t) == s.num * t.den = t.num * s.den

-----------------------------------------------------------------------------
(* Comparison of (score, word) tuples, as Python's tuple "<" does it: the   *)
(* first differing component decides; None < str raises TypeError.          *)

TypeError == [exc |-> "TypeError"]
IsExc(r) == "exc" \in DOMAIN r

\* "lt" when a < b, "ge" when not, "TypeError" when the comparison raises
PairCmp(a, b) ==
    IF ~ScoreEQ(a.score, b.score)
    THEN (IF ScoreLT(a.score, b.score) THEN "lt" ELSE "ge")
    ELSE IF a.word = b.word THEN "ge"
    ELSE IF a.word = None \/ b.word = None THEN "TypeError"
    ELSE IF WordLT(a.word, b.word) THEN "lt" ELSE "ge"

\* the mutant: the tuples compared by score alone, the first one seen is kept
\* on a tie
PyMinStep_mut_score(best, item) ==
    IF IsExc(best) THEN best
    ELSE IF ScoreLT(item.score, best.score) THEN item ELSE best

\* one step of Python's min(): best is the minimum so far
PyMinStep(best, item) ==
    IF IsExc(best) THEN best
    ELSE LET c == PairCmp(item, best)
         IN  IF c = "TypeError" THEN TypeError
             ELSE IF c = "lt" THEN item ELSE best

RECURSIVE PyMinFrom(_, _, _)
PyMinFrom(rs, i, best) ==
    IF i > Len(rs) THEN best ELSE PyMinFrom(rs, i + 1, PyMinStep(best, rs[i]))

\* min(rs) of a non-empty list of (score, word) tuples
PyMin(rs) == PyMinFrom(rs, 2, rs[1])

-----------------------------------------------------------------------------
(* make_guess: min(all_words, key=_score), the first word of minimal score *)

RECURSIVE MinIndexFrom(_, _, _)
MinIndexFrom(key_scores, i, best) ==
    IF i > Len(key_scores) THEN best
    ELSE MinIndexFrom(key_scores, i + 1,
                      IF ScoreLT(key_scores[i], key_scores[best]) THEN i ELSE best)

\* the mutant: max() in place of min(), the first word of greatest score
make_guess_mut_max(pa, all_words) ==
    LET key_scores == [i \in 1..Len(all_words) |->
                         [num |-> 0 - score_guess(all_words[i], pa).num,
                          den |-> score_guess(all_words[i], pa).den]]
    IN  all_words[MinIndexFrom(key_scores, 2, 1)]

make_guess(pa, all_words) ==
    LET key_scores == [i \in 1..Len(all_words) |-> score_guess(all_words[i], pa)]
    IN  all_words[MinIndexFrom(key_scores, 2, 1)]

\* make_guess_with_pool, lines 146-155, with the futures yielded in submission
\* order: min() over the (score, word) tuples
make_guess_with_pool(pa, all_words) ==
    PyMin([i \in 1..Len(all_words) |->
             [score |-> score_guess(all_words[i], pa), word |-> all_words[i]]]).word

-----------------------------------------------------------------------------
(* make_guess_with_loop with return_score=True: returns (score, guess),     *)
(* where score is the loop variable after the last iteration                *)

RECURSIVE loop_scan(_, _, _, _, _, _)
loop_scan(pa, possible_guesses, i, min_score, g, score) ==
    IF i > Len(possible_guesses) THEN [score |-> score, word |-> g]
    ELSE LET s == score_guess(possible_guesses[i], pa)
         IN  IF ScoreLT(s, min_score)
             THEN loop_scan(pa, possible_guesses, i + 1, s, possible_guesses[i], s)
             ELSE loop_scan(pa, possible_guesses, i + 1, min_score, g, s)

\* called on non-empty possible_guesses only (the "if guesses" of the caller)
make_guess_with_loop(pa, possible_guesses) ==
    loop_scan(pa, possible_guesses, 1, IntScore(Len(possible_guesses)), None,
              IntScore(0))

-----------------------------------------------------------------------------
(* make_guess_with_pool_chunked: the splits *)

\* Python's s[lo:hi] for 0 <= lo <= hi (0-based, clamped to the list)
Slice(s, lo, hi) ==
    LET a == MinInt(lo, Len(s))
        b == MinInt(hi, Len(s))
    IN  [k \in 1..(b - a) |-> s[a + k]]

ChunkSize(all_words) == CeilDiv(Len(all_words), MAX_WORKERS)

\* splits[i] for i in range(MAX_WORKERS)
Split(all_words, i) ==
    Slice(all_words, i * ChunkSize(all_words), (i + 1) * ChunkSize(all_words))

\* the chunks a future is submitted for
SubmittedChunks(all_words) ==
    {i \in 0..(MAX_WORKERS - 1) : Split(all_words, i) # <<>>}

-----------------------------------------------------------------------------
(* The inputs of the games checked *)

\* the two-letter words over {a, b}: aa, ab, ba, bb
SmallWords == {<<1, 1>>, <<1, 2>>, <<2, 1>>, <<2, 2>>}

\* every list of at most MaxDictLen of them, repetitions included
SmallDicts == UNION {[1..n -> SmallWords] : n \in 1..MaxDictLen}

crane == <<3, 18, 1, 14, 5>>
slate == <<19, 12, 1, 20, 5>>
snake == <<19, 14, 1, 11, 5>>
stale == <<19, 20, 1, 12, 5>>
aaaaa == <<1, 1, 1, 1, 1>>
abcde == <<1, 2, 3, 4, 5>>

ScenarioADict == <<crane, slate, snake, stale>>

\* the nine two-letter words over {a, b, c}, sorted and in reverse
NineWords == <<<<1, 1>>, <<1, 2>>, <<1, 3>>, <<2, 1>>, <<2, 2>>, <<2, 3>>,
               <<3, 1>>, <<3, 2>>, <<3, 3>>>>
NineWordsReversed == [i \in 1..Len(NineWords) |-> NineWords[Len(NineWords) + 1 - i]]

\* the five-letter word that repeats letter l: aaaaa, bbbbb, ...
Rep(l) == <<l, l, l, l, l>>
\* n pairwise letter-disjoint words
LongDict(n) == [i \in 1..n |-> Rep(i)]
\* a word outside every LongDict
Outsider == Rep(MaxLongLen + 1)
\* a secret outside LongDict(n) that shares one letter with each of its last two
\* words: the guess Rep(n - 1) scores GREEN, YELLOW x 4 on it
NearMiss(ws) == <<Len(ws) - 1, Len(ws), MaxLongLen + 1, MaxLongLen + 1, MaxLongLen + 1>>

\* line 31: the executor is created when the module is loaded
InitProgram ==
    /\ pool_state = "open"
    /\ main_pc = "running"

\* scores = defaultdict(int): every count reads 0
NoScores == [BUG |-> 0, FAIL |-> 0, solved |-> [n \in 1..MAX_SCORE |-> 0]]

\* solve_every_wordle is not called
IdleBatch ==
    /\ batch_pc = "idle"
    /\ answers = <<>>
    /\ games = <<>>
    /\ scores = NoScores

\* abbbb, adddd, acccc: the feedback of abbbb on the secret acccc keeps adddd and
\* acccc
abbbb == <<1, 2, 2, 2, 2>>
adddd == <<1, 4, 4, 4, 4>>
acccc == <<1, 3, 3, 3, 3>>
\* 2 * MAX_WORKERS + 2 words in chunks of three: abbbb, adddd and acccc among
\* words of one repeated letter each, none of which splits {adddd, acccc}
SeededDict ==
    [i \in 1..(2 * MAX_WORKERS + 2) |->
        CASE i = 1 -> abbbb
          [] i = 4 -> adddd
          [] i = 5 -> acccc
          [] OTHER -> Rep(i + 4)]

InitLocals ==
    /\ InitProgram
    /\ IdleBatch
    /\ pc = "init"
    /\ potential_answers = <<>>
    /\ guesses = <<>>
    /\ guess_list = <<>>
    /\ guess = None
    /\ classified = <<>>
    /\ all_futures = {}
    /\ gen_min = <<>>
    /\ split_results = <<>>
    /\ err = "none"
    /\ turns = 0
    /\ call = NoCall

InitSmall ==
    /\ words \in SmallDicts
    /\ target_word \in SmallWords
    /\ first_guess \in SmallWords \cup {None}
    /\ hard_mode \in BOOLEAN
    /\ mode \in Mode

InitScenarioA ==
    /\ words = ScenarioADict
    /\ target_word \in Range(ScenarioADict)
    /\ first_guess \in Range(ScenarioADict) \cup {None}
    /\ hard_mode \in BOOLEAN
    /\ mode \in Mode

InitScenarioB ==
    /\ words \in {<<aaaaa, abcde>>, <<abcde, aaaaa>>}
    /\ target_word \in {aaaaa, abcde}
    /\ first_guess \in {aaaaa, abcde, None}
    /\ hard_mode \in BOOLEAN
    /\ mode \in Mode

InitNine ==
    /\ words \in {NineWords, NineWordsReversed}
    /\ target_word \in {<<1, 2>>, <<2, 2>>, <<3, 1>>}
    /\ first_guess = None
    /\ hard_mode \in BOOLEAN
    /\ mode \in Mode

InitLong ==
    /\ words \in {LongDict(n) : n \in (GUESS_LIMIT + 1)..MaxLongLen}
    /\ target_word \in {words[2], words[Len(words)], Outsider, NearMiss(words)}
    /\ first_guess \in {None, Rep(1), Outsider}
    /\ hard_mode \in BOOLEAN
    /\ mode = NO_POOL

\* an easy-mode game seeded with a dictionary word other than the secret
InitSeeded ==
    /\ words = SeededDict
    /\ target_word = acccc
    /\ first_guess = abbbb
    /\ hard_mode = FALSE
    /\ mode \in {NO_POOL, CHUNKED_POOL}

Init ==
    /\ InitLocals
    /\ \/ InitSmall
       \/ InitScenarioA
       \/ InitScenarioB
       \/ InitNine
       \/ InitLong
       \/ InitSeeded

-----------------------------------------------------------------------------
(* play_wordle *)

PoolLocalsUnchanged == UNCHANGED <<all_futures, gen_min, split_results>>
BatchUnchanged == UNCHANGED <<batch_pc, answers, games, scores>>
ArgsUnchanged ==
    /\ UNCHANGED <<words, first_guess, target_word, hard_mode, mode, call>>
    /\ UNCHANGED <<pool_state, main_pc>>
    /\ BatchUnchanged

\* the mutant: the loop also runs on a single candidate
loop_continues_mut_ge(pa) == Len(pa) >= 1

\* line 90 with the test off by one: the loop stops with two candidates left
loop_continues_mut_two(pa) == Len(pa) > 2

\* line 90: the while condition
loop_continues(pa) == Len(pa) > 1

\* lines 77-88: the seed filter and the first vocabulary
Start ==
    /\ pc = "init"
    /\ IF first_guess # None
       THEN /\ classified' = classify_guess(first_guess, target_word)
            /\ potential_answers' = filter_words(words, first_guess, classified')
            /\ guess_list' = <<first_guess>>
       ELSE /\ potential_answers' = words
            /\ guess_list' = <<>>
            /\ UNCHANGED classified
    /\ guesses' = IF hard_mode THEN potential_answers' ELSE words
    /\ pc' = "loop"
    /\ UNCHANGED <<guess, err, turns>>
    /\ PoolLocalsUnchanged /\ ArgsUnchanged

\* lines 93-94: the sequential selector; min() of an empty list raises ValueError
SelectSequential ==
    /\ pc = "loop"
    /\ loop_continues(potential_answers)
    /\ mode = NO_POOL
    /\ turns' = turns + 1
    /\ IF guesses = <<>>
       THEN /\ pc' = "failed"
            /\ err' = "ValueError"
            /\ UNCHANGED guess
       ELSE /\ guess' = make_guess(potential_answers, guesses)
            /\ pc' = "apply"
            /\ UNCHANGED err
    /\ UNCHANGED <<potential_answers, guesses, guess_list, classified>>
    /\ PoolLocalsUnchanged /\ ArgsUnchanged

\* lines 95-96, 148: one score_guess task per vocabulary word is submitted
PoolSubmit ==
    /\ pc = "loop"
    /\ loop_continues(potential_answers)
    /\ mode = POOL
    /\ turns' = turns + 1
    /\ all_futures' = 1..Len(guesses)
    /\ gen_min' = <<>>
    /\ pc' = "pool"
    /\ UNCHANGED <<potential_answers, guesses, guess_list, guess, classified, err,
                   split_results>>
    /\ ArgsUnchanged

\* lines 149, 153: as_completed yields a finished future, min() consumes its result
PoolCollect(i) ==
    /\ pc = "pool"
    /\ i \in all_futures
    /\ LET item == [score |-> score_guess(guesses[i], potential_answers),
                    word |-> guesses[i]]
       IN  gen_min' = IF gen_min = <<>> THEN <<item>>
                      ELSE <<PyMinStep(gen_min[1], item)>>
    /\ all_futures' = all_futures \ {i}
    /\ UNCHANGED <<pc, potential_answers, guesses, guess_list, guess, classified, err,
                   split_results, turns>>
    /\ ArgsUnchanged

\* lines 153-155 reduced over the first result only: min() replaced by a take-one
\* that returns while tasks of the turn are still outstanding
PoolReturn_mut_first ==
    /\ pc = "pool"
    /\ gen_min # <<>>
    /\ guess' = gen_min[1].word
    /\ pc' = "apply"
    /\ gen_min' = <<>>
    /\ UNCHANGED <<potential_answers, guesses, guess_list, classified, all_futures,
                   split_results, turns, err>>
    /\ ArgsUnchanged

\* lines 153-155: min() returns; on an empty generator it raises ValueError
PoolReturn ==
    /\ pc = "pool"
    /\ all_futures = {}
    /\ IF gen_min = <<>>
       THEN /\ pc' = "failed"
            /\ err' = "ValueError"
            /\ UNCHANGED guess
       ELSE /\ guess' = gen_min[1].word
            /\ pc' = "apply"
            /\ UNCHANGED err
    /\ gen_min' = <<>>
    /\ UNCHANGED <<potential_answers, guesses, guess_list, classified, all_futures,
                   split_results, turns>>
    /\ ArgsUnchanged

\* lines 97-98, 159-162: one make_guess_with_loop task per non-empty split
ChunkedSubmit ==
    /\ pc = "loop"
    /\ loop_continues(potential_answers)
    /\ mode = CHUNKED_POOL
    /\ turns' = turns + 1
    /\ all_futures' = SubmittedChunks(guesses)
    /\ split_results' = <<>>
    /\ pc' = "chunked"
    /\ UNCHANGED <<potential_answers, guesses, guess_list, guess, classified, err,
                   gen_min>>
    /\ ArgsUnchanged

\* line 163: as_completed yields a finished chunk, its result joins split_results
ChunkedCollect(i) ==
    /\ pc = "chunked"
    /\ i \in all_futures
    /\ split_results' = Append(split_results,
                               make_guess_with_loop(potential_answers, Split(guesses, i)))
    /\ all_futures' = all_futures \ {i}
    /\ UNCHANGED <<pc, potential_answers, guesses, guess_list, guess, classified, err,
                   gen_min, turns>>
    /\ ArgsUnchanged

\* lines 166-168: min(split_results); ValueError on an empty list, TypeError when
\* it compares None with a word
ChunkedReturn ==
    /\ pc = "chunked"
    /\ all_futures = {}
    /\ IF split_results = <<>>
       THEN /\ pc' = "failed"
            /\ err' = "ValueError"
            /\ UNCHANGED guess
       ELSE LET m == PyMin(split_results)
            IN  IF IsExc(m)
                THEN /\ pc' = "failed"
                     /\ err' = "TypeError"
                     /\ UNCHANGED guess
                ELSE /\ guess' = m.word
                     /\ pc' = "apply"
                     /\ UNCHANGED err
    /\ split_results' = <<>>
    /\ UNCHANGED <<potential_answers, guesses, guess_list, classified, all_futures,
                   gen_min, turns>>
    /\ ArgsUnchanged

\* lines 107-110 on explicit locals
next_guesses(hard, new_answers, gs, g, gl) ==
    IF hard
    THEN SelectSeq(new_answers, LAMBDA i : i # g /\ i \notin Range(gl))
    ELSE SelectSeq(gs, LAMBDA i : i # g)

\* lines 107-110: the next vocabulary
NextGuesses(new_answers) ==
    next_guesses(hard_mode, new_answers, guesses, guess, guess_list)

\* lines 100-115: classify the guess, filter, update the vocabulary, check the
\* guess limit, append to the history. classify_guess(None, ...) raises TypeError.
ApplyFeedback ==
    /\ pc = "apply"
    /\ IF guess = None
       THEN /\ pc' = "failed"
            /\ err' = "TypeError"
            /\ UNCHANGED <<classified, potential_answers, guesses, guess_list>>
       ELSE /\ classified' = classify_guess(guess, target_word)
            /\ potential_answers' = filter_words(potential_answers, guess, classified')
            /\ guesses' = NextGuesses(potential_answers')
            /\ IF Len(guess_list) > GUESS_LIMIT
               THEN /\ pc' = "failed"
                    /\ err' = "GuessLimit"
                    /\ UNCHANGED guess_list
               ELSE /\ guess_list' = Append(guess_list, guess)
                    /\ pc' = "loop"
                    /\ UNCHANGED err
    /\ UNCHANGED <<guess, turns>>
    /\ PoolLocalsUnchanged /\ ArgsUnchanged

\* lines 90, 117-122 with one candidate left: append it and return the history
ReturnSolved ==
    /\ pc = "loop"
    /\ ~loop_continues(potential_answers)
    /\ Len(potential_answers) >= 1
    /\ guess_list' = Append(guess_list, potential_answers[1])
    /\ pc' = "solved"
    /\ UNCHANGED <<potential_answers, guesses, guess, classified, err, turns>>
    /\ PoolLocalsUnchanged /\ ArgsUnchanged

\* lines 90, 118-120 with no candidate left: potential_answers[0] raises IndexError
RaiseIndexError ==
    /\ pc = "loop"
    /\ ~loop_continues(potential_answers)
    /\ Len(potential_answers) = 0
    /\ pc' = "failed"
    /\ err' = "IndexError"
    /\ UNCHANGED <<potential_answers, guesses, guess_list, guess, classified, turns>>
    /\ PoolLocalsUnchanged /\ ArgsUnchanged

GameLocalsUnchanged ==
    UNCHANGED <<pc, potential_answers, guesses, guess_list, guess, classified, err,
                turns>>

\* lines 34-37, 224-225: play_wordle or solve_every_wordle returned, main returns
\* and the program ends; no statement of the module shuts POOL down
MainReturn ==
    /\ main_pc = "running"
    /\ pc = "solved" \/ batch_pc = "done"
    /\ main_pc' = "returned"
    /\ UNCHANGED <<pool_state, words, first_guess, target_word, hard_mode, mode, call>>
    /\ GameLocalsUnchanged /\ PoolLocalsUnchanged /\ BatchUnchanged

\* lines 34-37, 224-225: the exception of play_wordle leaves main uncaught and
\* the program ends; nothing on this path shuts POOL down either
MainRaise ==
    /\ main_pc = "running"
    /\ pc = "failed"
    /\ main_pc' = "raised"
    /\ UNCHANGED <<pool_state, words, first_guess, target_word, hard_mode, mode, call>>
    /\ GameLocalsUnchanged /\ PoolLocalsUnchanged /\ BatchUnchanged

Next ==
    \/ Start
    \/ SelectSequential
    \/ PoolSubmit
    \/ \E i \in all_futures : PoolCollect(i)
    \/ PoolReturn
    \/ ChunkedSubmit
    \/ \E i \in all_futures : ChunkedCollect(i)
    \/ ChunkedReturn
    \/ ApplyFeedback
    \/ ReturnSolved
    \/ RaiseIndexError
    \/ MainReturn
    \/ MainRaise

Spec == Init /\ [][Next]_vars

-----------------------------------------------------------------------------
(* filter_words called directly on arbitrary arguments *)

IdleGame ==
    /\ words = <<>>
    /\ first_guess = None
    /\ target_word = None
    /\ hard_mode = FALSE
    /\ mode = NO_POOL
    /\ pc = "idle"
    /\ potential_answers = <<>>
    /\ guesses = <<>>
    /\ guess_list = <<>>
    /\ guess = None
    /\ classified = <<>>
    /\ all_futures = {}
    /\ gen_min = <<>>
    /\ split_results = <<>>
    /\ err = "none"
    /\ turns = 0

\* the arguments of the calls: two-letter lists against every guess over
\* {a, b, c}, and the Scenario A list against five-letter guesses
FilterCalls ==
    {[fn |-> "filter_words", words |-> ws, guess |-> g, classification |-> v,
      output |-> <<>>, done |-> FALSE] :
        ws \in SmallDicts \cup {NineWords, NineWordsReversed},
        g \in Range(NineWords),
        v \in [1..2 -> Classification]}
    \cup
    {[fn |-> "filter_words", words |-> ScenarioADict, guess |-> g,
      classification |-> v, output |-> <<>>, done |-> FALSE] :
        g \in Range(ScenarioADict) \cup {aaaaa, abcde},
        v \in [1..5 -> Classification]}

InitFilter ==
    /\ IdleGame
    /\ IdleBatch
    /\ InitProgram
    /\ call \in FilterCalls

\* lines 191-203
CallFilterWords ==
    /\ call.fn = "filter_words"
    /\ ~call.done
    /\ call' = [call EXCEPT !.output = filter_words(call.words, call.guess,
                                                     call.classification),
                            !.done = TRUE]
    /\ UNCHANGED <<words, first_guess, target_word, hard_mode, mode, pc,
                   potential_answers, guesses, guess_list, guess, classified,
                   all_futures, gen_min, split_results, err, turns>>
    /\ UNCHANGED <<pool_state, main_pc>>
    /\ BatchUnchanged

NextFilter == CallFilterWords

SpecFilter == InitFilter /\ [][NextFilter]_vars

-----------------------------------------------------------------------------
(* play_wordle as one call: the task a pool worker runs for solve_every_wordle *)

\* lines 93-96; the batch never passes CHUNKED_POOL
select_guess(m, pa, gs) ==
    CASE m = NO_POOL -> make_guess(pa, gs)
      [] m = POOL -> make_guess_with_pool(pa, gs)

\* lines 90-122 on explicit locals: the history, or the exception raised
RECURSIVE play_loop(_, _, _, _, _, _)
play_loop(pa, gs, gl, target, hard, m) ==
    IF loop_continues(pa)
    THEN IF gs = <<>>
         THEN [exc |-> "ValueError"]
         ELSE LET g == select_guess(m, pa, gs)
                  new_answers == filter_words(pa, g, classify_guess(g, target))
                  new_guesses == next_guesses(hard, new_answers, gs, g, gl)
              IN  IF Len(gl) > GUESS_LIMIT
                  THEN [exc |-> "GuessLimit"]
                  ELSE play_loop(new_answers, new_guesses, Append(gl, g), target,
                                 hard, m)
    ELSE IF pa = <<>>
         THEN [exc |-> "IndexError"]
         ELSE [history |-> Append(gl, pa[1])]

\* lines 75-122
play_wordle(ws, fg, target, hard, m) ==
    LET pa == IF fg # None
              THEN filter_words(ws, fg, classify_guess(fg, target))
              ELSE ws
        gl == IF fg # None THEN <<fg>> ELSE <<>>
        gs == IF hard THEN pa ELSE ws
    IN  play_loop(pa, gs, gl, target, hard, m)

\* the mutant: no try/except, the exception of play_wordle leaves the task
safe_play_wordle_mut_raise(ws, fg, target, hard, m) ==
    play_wordle(ws, fg, target, hard, m)

\* lines 67-72: every Exception of play_wordle becomes the return value []
safe_play_wordle(ws, fg, target, hard, m) ==
    LET r == play_wordle(ws, fg, target, hard, m)
    IN  IF IsExc(r) THEN [history |-> <<>>] ELSE r

-----------------------------------------------------------------------------
(* solve_every_wordle: one task per secret on POOL, collected as completed *)

\* the mutant: the mode argument left out, the default Mode.POOL applies
GAME_MODE_mut_default == POOL

\* line 46: mode=Mode.NO_POOL
GAME_MODE == NO_POOL

\* lines 95-98: the selectors that submit to POOL and wait for its results
SubmitsToPool(m) == m \in {POOL, CHUNKED_POOL}

PendingGames == {i \in DOMAIN games : games[i].state = "PENDING"}
RunningGames == {i \in DOMAIN games : games[i].state = "RUNNING"}
\* a worker process of POOL is free
WorkerIdle == Cardinality(RunningGames) < MAX_WORKERS

\* lines 54-55: drop the last entry of a history that ends in a repeated word
strip_duplicate(score) ==
    IF Len(score) >= 2 /\ score[Len(score)] = score[Len(score) - 1]
    THEN SubSeq(score, 1, Len(score) - 1)
    ELSE score

\* lines 57-63
tally(sc, score) ==
    IF Len(score) = 0 THEN [sc EXCEPT !.BUG = @ + 1]
    ELSE IF Len(score) > MAX_SCORE THEN [sc EXCEPT !.FAIL = @ + 1]
    ELSE [sc EXCEPT !.solved[Len(score)] = @ + 1]

BatchArgsUnchanged ==
    /\ UNCHANGED <<words, first_guess, target_word, hard_mode, mode, call>>
    /\ UNCHANGED <<pool_state, main_pc, answers>>
    /\ GameLocalsUnchanged /\ PoolLocalsUnchanged

\* lines 44-48: one future per secret, in the order of the answer list
SubmitGames ==
    /\ batch_pc = "start"
    /\ games' = [i \in 1..Len(answers) |->
                   [target |-> answers[i], mode |-> GAME_MODE, state |-> "PENDING",
                    result |-> [history |-> <<>>], yielded |-> FALSE]]
    /\ batch_pc' = "collect"
    /\ UNCHANGED scores
    /\ BatchArgsUnchanged

\* the executor hands the oldest pending task to a free worker
WorkerStart(i) ==
    /\ batch_pc = "collect"
    /\ i \in PendingGames
    /\ \A j \in PendingGames : i <= j
    /\ WorkerIdle
    /\ games' = [games EXCEPT ![i].state = "RUNNING"]
    /\ UNCHANGED <<batch_pc, scores>>
    /\ BatchArgsUnchanged

\* the worker runs safe_play_wordle to its end; a game whose selector submits to
\* POOL needs a free worker for its own tasks before it can end
WorkerFinish(i) ==
    /\ batch_pc = "collect"
    /\ i \in RunningGames
    /\ SubmitsToPool(games[i].mode) => WorkerIdle
    /\ games' = [games EXCEPT
                   ![i].state = "FINISHED",
                   ![i].result = safe_play_wordle(words, first_guess, games[i].target,
                                                  hard_mode, games[i].mode)]
    /\ UNCHANGED <<batch_pc, scores>>
    /\ BatchArgsUnchanged

\* lines 49-63: as_completed yields a finished future; game.result() re-raises
\* the exception of the task, and solve_every_wordle ends with it
CollectGame(i) ==
    /\ batch_pc = "collect"
    /\ games[i].state = "FINISHED"
    /\ ~games[i].yielded
    /\ games' = [games EXCEPT ![i].yielded = TRUE]
    /\ IF IsExc(games[i].result)
       THEN /\ batch_pc' = "crashed"
            /\ UNCHANGED scores
       ELSE /\ scores' = tally(scores, strip_duplicate(games[i].result.history))
            /\ UNCHANGED batch_pc
    /\ BatchArgsUnchanged

\* line 64: every future was yielded, the tally is printed
BatchReturn ==
    /\ batch_pc = "collect"
    /\ \A i \in DOMAIN games : games[i].yielded
    /\ batch_pc' = "done"
    /\ UNCHANGED <<games, scores>>
    /\ BatchArgsUnchanged

\* the answer lists: at most MaxAnswers secrets for the Scenario A dictionary,
\* one of them outside it
InitBatchScenarioA ==
    /\ words = ScenarioADict
    /\ first_guess \in {None, crane}
    /\ hard_mode \in BOOLEAN
    /\ answers \in UNION {[1..n -> {slate, snake, abcde}] : n \in 1..MaxAnswers}

\* histories longer than MAX_SCORE, histories ending in a repeated word, and a
\* secret outside the dictionary
InitBatchEight ==
    /\ words = LongDict(MAX_SCORE + 2)
    /\ first_guess = None
    /\ hard_mode \in BOOLEAN
    /\ answers \in [1..2 -> {Rep(2), Rep(MAX_SCORE + 1), Rep(MAX_SCORE + 2), Outsider}]

\* a game that ends in the guess-limit error next to a game that is solved
InitBatchLong ==
    /\ words = LongDict(MaxLongLen)
    /\ first_guess = None
    /\ hard_mode = TRUE
    /\ answers \in [1..2 -> {Rep(2), Rep(MaxLongLen)}]

\* more games than workers: the first for a secret outside the dictionary, the
\* others for the same dictionary word
InitBatchMany ==
    /\ words = <<<<1, 2>>, <<2, 1>>, <<2, 2>>>>
    /\ first_guess = None
    /\ hard_mode = TRUE
    /\ answers = [i \in 1..(MAX_WORKERS + 1) |-> IF i = 1 THEN <<1, 1>> ELSE <<2, 2>>]

InitBatch ==
    /\ InitProgram
    /\ target_word = None
    /\ mode = NO_POOL
    /\ pc = "idle"
    /\ potential_answers = <<>>
    /\ guesses = <<>>
    /\ guess_list = <<>>
    /\ guess = None
    /\ classified = <<>>
    /\ all_futures = {}
    /\ gen_min = <<>>
    /\ split_results = <<>>
    /\ err = "none"
    /\ turns = 0
    /\ call = NoCall
    /\ batch_pc = "start"
    /\ games = <<>>
    /\ scores = NoScores
    /\ \/ InitBatchScenarioA
       \/ InitBatchEight
       \/ InitBatchLong
       \/ InitBatchMany

NextBatch ==
    \/ SubmitGames
    \/ \E i \in DOMAIN games : WorkerStart(i)
    \/ \E i \in DOMAIN games : WorkerFinish(i)
    \/ \E i \in DOMAIN games : CollectGame(i)
    \/ BatchReturn
    \/ MainReturn

SpecBatch == InitBatch /\ [][NextBatch]_vars

-----------------------------------------------------------------------------
(* The properties checked *)

\* the selector is about to be invoked on (potential_answers, guesses)
AtSelectorInvocation == pc = "loop" /\ loop_continues(potential_answers)

\* the guess that the variable classified is the classification of, when pc = "loop"
LastClassifiedGuess == IF guess # None THEN guess ELSE first_guess

\* C1: when the dictionary contains the secret, the secret is among the candidates
\* after the seed filter and after every loop iteration, in every mode
C1_SecretStaysCandidate ==
    (target_word \in Range(words) /\ pc \notin {"init", "idle"})
        => target_word \in Range(potential_answers)

\* a game with a seed whose filter left several candidates, after a loop iteration
C1_Witness ==
    /\ pc = "loop"
    /\ first_guess # None
    /\ target_word \in Range(words)
    /\ turns >= 1
    /\ Len(guess_list) >= 2
    /\ Len(potential_answers) < Len(words)

\* C2: filter_words keeps a word iff classify_guess(guess, word) equals the vector,
\* and keeps the retained words in their original order
C2_FilterKeepsExactlyMatching ==
    (call.fn = "filter_words" /\ call.done)
        => call.output = SelectSeq(call.words,
               LAMBDA w : classify_guess(call.guess, w) = call.classification)

\* a call that kept some words and removed others, on a vector with a YELLOW
C2_Witness ==
    /\ call.fn = "filter_words"
    /\ call.done
    /\ call.output # <<>>
    /\ Len(call.output) < Len(call.words)
    /\ Len(call.output) >= 2
    /\ YELLOW \in Range(call.classification)

\* C3: every selector returns a vocabulary word whose score is the minimum of
\* score_guess over the whole vocabulary
C3_SelectorReturnsMinimizer ==
    /\ pc = "apply" =>
          /\ guess \in Range(guesses)
          /\ \A w \in Range(guesses) :
                ~ScoreLT(score_guess(w, potential_answers),
                         score_guess(guess, potential_answers))
    /\ pc = "failed" => err # "TypeError"

\* C4, for the sequential and the flat-parallel strategy (the chunked one fails
\* C3 already): the selector returns the first-seen minimizer in vocabulary
\* order, the word the sequential scan returns
C4_SelectorsReturnFirstMinimizer ==
    (pc = "apply" /\ mode \in {NO_POOL, POOL})
        => guess = make_guess(potential_answers, guesses)

\* C5 as stated: a guess letter whose only matches in the answer are at positions
\* where the guess scores GREEN is labelled BLANK at its other positions, and
\* classify_guess("aaaaa", "abcde") = (GREEN, BLANK, BLANK, BLANK, BLANK)
C5_MatchedLetterIsBlank ==
    (pc = "loop" /\ LastClassifiedGuess # None) =>
        LET g == LastClassifiedGuess
        IN  /\ \A pos \in 1..Len(g) :
                 ( /\ g[pos] # target_word[pos]
                   /\ g[pos] \in Range(target_word)
                   /\ \A q \in 1..Len(g) : target_word[q] = g[pos] => g[q] = g[pos] )
                    => classified[pos] = BLANK
            /\ (g = aaaaa /\ target_word = abcde)
                    => classified = <<GREEN, BLANK, BLANK, BLANK, BLANK>>

\* C5 amended: such a letter is labelled YELLOW at its other positions, and
\* classify_guess("aaaaa", "abcde") = (GREEN, YELLOW, YELLOW, YELLOW, YELLOW)
C5_MatchedLetterIsYellow ==
    (pc = "loop" /\ LastClassifiedGuess # None) =>
        LET g == LastClassifiedGuess
        IN  /\ \A pos \in 1..Len(g) :
                 ( /\ g[pos] # target_word[pos]
                   /\ g[pos] \in Range(target_word)
                   /\ \A q \in 1..Len(g) : target_word[q] = g[pos] => g[q] = g[pos] )
                    => classified[pos] = YELLOW
            /\ (g = aaaaa /\ target_word = abcde)
                    => classified = <<GREEN, YELLOW, YELLOW, YELLOW, YELLOW>>

\* the seed "aaaaa" has been classified against the secret "abcde"
C5_Witness ==
    /\ pc = "loop"
    /\ guess = None
    /\ first_guess = aaaaa
    /\ target_word = abcde
    /\ Len(classified) = 5

\* C6: when the guess-limit error is raised with several candidates left, the
\* guess just made is the 21st (the history holds 20 guesses), and no game goes
\* on to another turn with 21 guesses in its history
C6_GuessLimitAtTwentyFirstGuess ==
    /\ (err = "GuessLimit" /\ Len(potential_answers) > 1)
          => Len(guess_list) + 1 = GUESS_LIMIT + 1
    /\ AtSelectorInvocation => Len(guess_list) <= GUESS_LIMIT

\* the dictionary lists no word twice
DuplicateFree(ws) == Cardinality(Range(ws)) = Len(ws)

\* C7, for duplicate-free dictionaries: in easy mode, at every selector
\* invocation, the vocabulary is the dictionary minus the words of the history
C7_EasyVocabularyIsDictionaryMinusHistory ==
    (AtSelectorInvocation /\ ~hard_mode /\ DuplicateFree(words))
        => guesses = SelectSeq(words, LAMBDA w : w \notin Range(guess_list))

\* C8: in hard mode, at every selector invocation, the vocabulary is the
\* candidate list minus the words of the history
C8_HardVocabularyIsCandidatesMinusHistory ==
    (AtSelectorInvocation /\ hard_mode)
        => guesses = SelectSeq(potential_answers,
                               LAMBDA w : w \notin Range(guess_list))

\* C9: from the loop test with exactly one candidate, the only step is to the
\* solved outcome: that candidate is appended to the history and no selector is
\* invoked
C9_SingletonSolvesWithoutSelector ==
    [][(pc = "loop" /\ Len(potential_answers) = 1)
         => /\ pc' = "solved"
            /\ guess_list' = Append(guess_list, potential_answers[1])
            /\ turns' = turns
            /\ all_futures' = {}
            /\ guess' = guess]_vars

\* a game solved by the seed filter alone, with no selector invocation
C9_Witness ==
    /\ pc = "solved"
    /\ turns = 0
    /\ first_guess # None
    /\ Len(words) > 1
    /\ guess_list = <<first_guess, potential_answers[1]>>

ScenarioA ==
    /\ words = ScenarioADict
    /\ target_word = snake
    /\ hard_mode
    /\ first_guess = None
    /\ mode \in {NO_POOL, POOL}

\* C10: Scenario A never fails, never takes more than 4 turns, stops only in
\* the solved outcome, and is solved with the candidate list ["snake"]
C10_ScenarioATerminates ==
    (ScenarioA /\ pc # "idle") =>
        /\ turns <= 4
        /\ pc # "failed"
        /\ pc = "solved" \/ ENABLED Next
        /\ pc = "solved" => potential_answers = <<snake>>

\* Scenario A solved under the flat pool after at least one turn
C10_Witness ==
    /\ ScenarioA
    /\ mode = POOL
    /\ pc = "solved"
    /\ turns >= 1
    /\ potential_answers = <<snake>>

\* C11: whenever play_wordle returns a history, exactly one candidate is left,
\* the last element of the history is that candidate, and it is the secret
\* whenever the secret is a dictionary word
C11_LastEntryIsTheSingleCandidate ==
    pc = "solved" =>
        /\ Len(potential_answers) = 1
        /\ guess_list # <<>>
        /\ guess_list[Len(guess_list)] = potential_answers[1]
        /\ target_word \in Range(words)
              => guess_list[Len(guess_list)] = target_word

\* a game on a dictionary of several words, solved for a dictionary secret
\* after at least two turns
C11_Witness ==
    /\ pc = "solved"
    /\ turns >= 2
    /\ target_word \in Range(words)
    /\ Len(words) >= 3
    /\ guess_list[Len(guess_list)] = target_word

\* C12: in both pooled strategies every task submitted in a turn has finished and
\* been collected before the guess of that turn is classified and before any
\* task of the next turn is submitted; no task is outstanding outside the
\* selector call, so tasks of different turns never overlap
C12_TurnsDoNotOverlap ==
    /\ [](pc \in {"loop", "apply", "solved", "failed"} => all_futures = {})
    /\ [][/\ classified' # classified => all_futures = {}
          /\ turns' # turns => all_futures = {}
          /\ (pc \in {"pool", "chunked"} /\ all_futures' # all_futures)
                => (turns' = turns /\ all_futures' \subseteq all_futures)]_vars

\* the second turn's guess of a pooled game is about to be classified: the tasks
\* of two turns have been submitted and all of them collected
C12_Witness ==
    /\ pc = "apply"
    /\ mode \in {POOL, CHUNKED_POOL}
    /\ turns >= 2
    /\ Len(guesses) >= 2
    /\ all_futures = {}

\* the candidate list is empty after the seed filter or after a turn
EmptyCandidateSet == pc \notin {"init", "idle"} /\ potential_answers = <<>>

\* C13: once the candidate set is empty play_wordle never returns a history, and
\* when it halts the error is an error other than the guess-limit error
C13_EmptySetErrorIsNotGuessLimit ==
    EmptyCandidateSet =>
        /\ pc # "solved"
        /\ pc = "failed" => err \notin {"none", "GuessLimit"}

\* the guards of WorkerStart, WorkerFinish, CollectGame and BatchReturn: some
\* step of the batch can be taken
BatchCanProgress ==
    \/ PendingGames # {} /\ WorkerIdle
    \/ \E i \in RunningGames : SubmitsToPool(games[i].mode) => WorkerIdle
    \/ \E i \in DOMAIN games : games[i].state = "FINISHED" /\ ~games[i].yielded
    \/ \A i \in DOMAIN games : games[i].yielded

\* C14: every game solve_every_wordle submits runs with the sequential selector,
\* so no task on a pool worker submits to or waits on the pool, and the batch
\* is never stuck with games outstanding
C14_BatchGamesRunSequentially ==
    /\ \A i \in DOMAIN games :
          /\ games[i].mode = NO_POOL
          /\ ~SubmitsToPool(games[i].mode)
    /\ batch_pc = "collect" => BatchCanProgress

\* every worker of the pool runs a game while another game waits for a worker
C14_Witness ==
    /\ batch_pc = "collect"
    /\ Cardinality(RunningGames) = MAX_WORKERS
    /\ PendingGames # {}
    /\ \A i \in RunningGames : games[i].mode = NO_POOL

\* the games of the batch that play_wordle ends with an exception
FailedGames ==
    {i \in DOMAIN games :
        IsExc(play_wordle(words, first_guess, answers[i], hard_mode, games[i].mode))}

RECURSIVE SumSolved(_, _)
SumSolved(sc, n) == IF n = 0 THEN 0 ELSE sc.solved[n] + SumSolved(sc, n - 1)
\* the number of games tallied
Tallied(sc) == sc.BUG + sc.FAIL + SumSolved(sc, MAX_SCORE)

\* C15: the error of a game never leaves its task: no future holds an exception
\* and solve_every_wordle never ends with one; the batch is never stuck, and
\* when it ends every game has run, was collected and counted once, the failed
\* games under "BUG", whatever the order in which the games ended
C15_GameFailureIsIsolated ==
    /\ batch_pc # "crashed"
    /\ \A i \in DOMAIN games : ~IsExc(games[i].result)
    /\ batch_pc = "collect" =>
          /\ BatchCanProgress
          /\ Tallied(scores) = Cardinality({i \in DOMAIN games : games[i].yielded})
    /\ batch_pc = "done" =>
          /\ DOMAIN games = 1..Len(answers)
          /\ \A i \in DOMAIN games : games[i].state = "FINISHED" /\ games[i].yielded
          /\ Tallied(scores) = Len(answers)
          /\ scores.BUG = Cardinality(FailedGames)

\* a finished batch in which one game failed and a sibling was solved and counted
C15_Witness ==
    /\ batch_pc = "done"
    /\ Len(answers) >= 2
    /\ FailedGames # {}
    /\ scores.BUG >= 1
    /\ \E n \in 1..MAX_SCORE : scores.solved[n] >= 1

\* C16: the pool is created once, stays usable while the program runs, and has
\* been shut down whenever the program has ended, by the return of main or by
\* an exception of the game
C16_PoolReleasedOnEveryExit ==
    /\ main_pc = "running" => pool_state = "open"
    /\ main_pc \in {"returned", "raised"} => pool_state = "shutdown"

\* the least score of the words of a non-empty list, as a word attaining it
MinScoreWord(pa, ws) ==
    CHOOSE w \in Range(ws) :
        \A v \in Range(ws) : ~ScoreLT(score_guess(v, pa), score_guess(w, pa))

\* C17: each chunk task returns the minimum score over its chunk with a word of
\* the chunk that attains it, and make_guess_with_pool_chunked returns a
\* vocabulary word that attains the minimum of the per-chunk minima
C17_ChunkedReturnsChunkMinima ==
    /\ pc = "chunked" =>
          \A i \in SubmittedChunks(guesses) :
              LET chunk == Split(guesses, i)
                  r == make_guess_with_loop(potential_answers, chunk)
              IN  /\ r.word \in Range(chunk)
                  /\ ScoreEQ(r.score, score_guess(r.word, potential_answers))
                  /\ ScoreEQ(r.score,
                             score_guess(MinScoreWord(potential_answers, chunk),
                                         potential_answers))
    /\ (pc = "apply" /\ mode = CHUNKED_POOL) =>
          /\ guess \in Range(guesses)
          /\ ScoreEQ(score_guess(guess, potential_answers),
                     score_guess(MinScoreWord(potential_answers, guesses),
                                 potential_answers))

\* C18: for the candidates and vocabulary of a turn, make_guess_with_pool
\* returns, whatever the order in which the tasks complete, the word it returns
\* when they complete in submission order, and that word has minimal score
C18_PoolResultIsOrderIndependent ==
    (pc = "apply" /\ mode = POOL) =>
        /\ guess = make_guess_with_pool(potential_answers, guesses)
        /\ guess \in Range(guesses)
        /\ \A w \in Range(guesses) :
              ~ScoreLT(score_guess(w, potential_answers),
                       score_guess(guess, potential_answers))

\* a flat-pool turn whose vocabulary holds another word of the same minimal
\* score, earlier in the vocabulary than the word returned
C18_Witness ==
    /\ pc = "apply"
    /\ mode = POOL
    /\ \E i, j \in 1..Len(guesses) :
          /\ i < j
          /\ guesses[j] = guess
          /\ guesses[i] # guess
          /\ ScoreEQ(score_guess(guesses[i], potential_answers),
                     score_guess(guess, potential_answers))

\* the games of C19: a duplicate-free dictionary of at most GUESS_LIMIT + 1
\* words that holds the secret, played with the sequential or the flat-pool
\* selector
ProgressGame ==
    /\ DuplicateFree(words)
    /\ Len(words) <= GUESS_LIMIT + 1
    /\ target_word \in Range(words)
    /\ mode \in {NO_POOL, POOL}

\* the call can take a step: Start at "init"; at "loop" a selector (several
\* candidates), ReturnSolved (one) or RaiseIndexError (none); at "pool"
\* PoolCollect (futures outstanding) or PoolReturn (none); ApplyFeedback at "apply"
GameCanStep ==
    \/ pc \in {"init", "loop", "apply"}
    \/ pc = "pool" /\ mode = POOL

\* a variant of the call: the candidates left, then the stage of the turn and
\* the pool tasks still outstanding
Variant ==
    LET stride == Len(words) + 3
    IN  CASE pc = "init" -> (Len(words) + 2) * stride
          [] pc = "loop" -> Len(potential_answers) * stride + Len(words) + 3
          [] pc = "pool" -> Len(potential_answers) * stride + Cardinality(all_futures) + 2
          [] pc = "apply" -> Len(potential_answers) * stride + 1
          [] OTHER -> 0

\* C19: in such a game, hard or easy, seeded or not, every turn strictly
\* shrinks the candidate list, no error is raised, at most |dictionary| - 1
\* turns are played, and the call ends solved: until then a step is always
\* possible and every step decreases the variant
C19_EveryTurnShrinksCandidates ==
    /\ [](ProgressGame =>
            /\ pc # "failed"
            /\ turns <= Len(words) - 1
            /\ pc = "solved" \/ GameCanStep)
    /\ [][(ProgressGame /\ pc = "apply")
            => Len(potential_answers') < Len(potential_answers)]_vars
    /\ [][(ProgressGame /\ pc # "solved")
            => (Variant' < Variant /\ Variant' >= 0)]_vars

\* a dictionary of GUESS_LIMIT + 1 words solved in its last possible turn
C19_Witness ==
    /\ ProgressGame
    /\ pc = "solved"
    /\ Len(words) = GUESS_LIMIT + 1
    /\ turns = Len(words) - 1

\* the history repeats a word only as its last two entries
RepeatsOnlyAtEnd(h) ==
    \A i, j \in 1..Len(h) : (i < j /\ h[i] = h[j]) => (i = Len(h) - 1 /\ j = Len(h))

\* C20: for a duplicate-free dictionary that holds the secret, the feedback of a
\* guess other than the secret removes that guess from the candidates, the
\* selector never returns a word of the history, and the history returned
\* repeats a word only as its last two entries, and only the secret
C20_HistoryRepeatsOnlyTheSecret ==
    (DuplicateFree(words) /\ target_word \in Range(words)) =>
        /\ (pc = "loop" /\ LastClassifiedGuess # None
                /\ LastClassifiedGuess # target_word)
              => LastClassifiedGuess \notin Range(potential_answers)
        /\ (pc = "apply" /\ guess # None) => guess \notin Range(guess_list)
        /\ pc = "solved" =>
              /\ RepeatsOnlyAtEnd(guess_list)
              /\ \A i \in 1..(Len(guess_list) - 1) :
                    guess_list[i] = guess_list[i + 1] => guess_list[i] = target_word

====
